---- MODULE Spec2Model ----
(***************************************************************************)
(* Model of song/processor.go: the ingestion glue ProcessSongFromURL that  *)
(* downloads a song, converts it to WAV, fingerprints it and stores the    *)
(* fingerprints, run by independent workers over a shared file system and  *)
(* a shared Fingerprint Store.                                             *)
(***************************************************************************)
EXTENDS Bags, FiniteSets, Integers, Sequences, TLC

\* ------------------------------------------------------------- bounds
NumWorkers == 2
MaxCalls == 2
MaxPut == 2

Workers == 1 .. NumWorkers
IDs == 1 .. MaxCalls
NULL == [none |-> TRUE]

\* ------------------------------------------------------ program constants
SampleRate == 44100
BytesPerSample == 2
StatusOK == 200
Window == 2
Hop == 1
MaxTimeDelta == 1
BinBits == 2
Byte == 256
Int16Top == 32768

\* ------------------------------------------------------------- inputs
\* SongInput values the callers pass.  The first two differ only in song_url.
Inputs ==
    { [song_url |-> "u1", title |-> "a", artist |-> "b", youtube_id |-> "y"],
      [song_url |-> "u0", title |-> "a", artist |-> "b", youtube_id |-> "y"],
      [song_url |-> "ue", title |-> "c", artist |-> "d", youtube_id |-> "z"] }

\* What the remote server holds at each URL: the PCM bytes (16-bit little-endian)
\* the MP3 decodes to.  u0 is silence, ue is a track of zero length.
Body(url) ==
    CASE url = "u1" -> <<1, 0, 3, 0, 2, 0, 5, 0>>
      [] url = "u0" -> <<0, 0, 0, 0, 0, 0>>
      [] OTHER      -> << >>

\* ------------------------------------------------------- pure functions
\* fmt.Sprintf("%s_%s.mp3", Title, Artist) under filepath.Join("tmp", ...):
\* a path is kept as directory, stem and extension.
Stem(in) == in.title \o "_" \o in.artist

TmpMP3Path(in) == [dir |-> "tmp", stem |-> Stem(in), ext |-> ".mp3"]

\* strings.TrimSuffix(inputPath, filepath.Ext(inputPath)) + ".wav"
WavPathOf(inputPath) == [inputPath EXCEPT !.ext = ".wav"]

FinalPath(in) == [dir |-> "songs", stem |-> Stem(in), ext |-> ".wav"]

\* wav.WavBytesToSamples: pairs of bytes, little-endian, signed 16 bit.
Int16(lo, hi) ==
    LET u == lo + Byte * hi IN IF u >= Int16Top THEN u - 2 * Int16Top ELSE u

WavBytesToSamples(data) ==
    [i \in 1 .. (Len(data) \div BytesPerSample) |->
        Int16(data[BytesPerSample * i - 1], data[BytesPerSample * i])]

Abs(x) == IF x < 0 THEN -x ELSE x

\* shazam.Spectrogram: overlapping windows of Window samples every Hop samples;
\* frame count = floor((len - window)/hop) + 1; each frame keeps magnitudes only.
FrameCount(n) == IF n < Window THEN 0 ELSE ((n - Window) \div Hop) + 1

SpectrogramOf(samples) ==
    [f \in 1 .. FrameCount(Len(samples)) |->
        [b \in 1 .. Window |-> Abs(samples[(f - 1) * Hop + b])]]

SpectrogramFails(samples, sampleRate) == Len(samples) = 0 \/ sampleRate <= 0

RECURSIVE SumSeq(_)
SumSeq(s) == IF Len(s) = 0 THEN 0 ELSE Head(s) + SumSeq(Tail(s))

\* shazam.ExtractPeaks: per frame the strongest bin, kept when it exceeds the
\* average magnitude of the frames considered; duration caps the frames.
Champion(frame) ==
    CHOOSE b \in 1 .. Len(frame) :
        /\ \A c \in 1 .. Len(frame) : frame[c] <= frame[b]
        /\ \A c \in 1 .. (b - 1) : frame[c] < frame[b]

ExtractPeaks(spectrogram, duration) ==
    LET n     == IF Len(spectrogram) < duration THEN Len(spectrogram) ELSE duration
        total == SumSeq([f \in 1 .. n |-> SumSeq(spectrogram[f])])
        count == n * Window
    IN { [frameIndex |-> f - 1,
          binIndex   |-> Champion(spectrogram[f]),
          magnitude  |-> spectrogram[f][Champion(spectrogram[f])]] :
            f \in { g \in 1 .. n :
                      spectrogram[g][Champion(spectrogram[g])] * count > total } }

\* shazam.Fingerprint: every peak is an anchor paired with the later peaks of
\* its target zone; the hash packs both bins and the frame delta.
Pow2(n) == IF n = 0 THEN 1 ELSE IF n = 1 THEN 2 ELSE IF n = 2 THEN 4
           ELSE IF n = 3 THEN 8 ELSE 16

Hash(p, q) ==
    p.binIndex + Pow2(BinBits - 1) * q.binIndex
               + Pow2(BinBits) * (q.frameIndex - p.frameIndex)

Fingerprint(peaks, songID) ==
    { [hash |-> Hash(p, q), trackID |-> songID, anchorTimeOffset |-> p.frameIndex] :
        <<p, q>> \in { pq \in peaks \X peaks :
                         /\ pq[2].frameIndex > pq[1].frameIndex
                         /\ pq[2].frameIndex - pq[1].frameIndex <= MaxTimeDelta } }

\* strconv.FormatUint(n, 10): the decimal digits of n, most significant first.
Digit(d) ==
    CASE d = 0 -> "0" [] d = 1 -> "1" [] d = 2 -> "2" [] d = 3 -> "3" [] d = 4 -> "4"
      [] d = 5 -> "5" [] d = 6 -> "6" [] d = 7 -> "7" [] d = 8 -> "8" [] OTHER -> "9"

RECURSIVE FormatUint(_)
FormatUint(n) ==
    IF n < 10 THEN Digit(n) ELSE FormatUint(n \div 10) \o Digit(n % 10)

\* ---------------------------------------------------- Fingerprint Store
\* The persisted layout: every (hash, trackID, anchorTimeOffset) tuple with the
\* number of copies held, plus the track table keyed by trackID.
PutAppend(st, fps) == st (+) SetToBag(fps)

\* put: bulk-persist, a tuple already held is not inserted again.
Put(st, fps) == st (+) SetToBag(fps \ BagToSet(st))

\* lookup: for a hash, the (trackID, anchorTimeOffset) entries held, with copies.
Lookup(st, h) ==
    LET hits == { t \in BagToSet(st) : t.hash = h }
    IN  [ e \in { [trackID |-> t.trackID, anchorTimeOffset |-> t.anchorTimeOffset] :
                    t \in hits } |->
            st[[hash |-> h, trackID |-> e.trackID,
                anchorTimeOffset |-> e.anchorTimeOffset]] ]

Hashes(st) == { t.hash : t \in BagToSet(st) }

\* ------------------------------------------------------------- state
VARIABLES
    pc,         \* per worker: the statement of ProcessSongFromURL it runs next
    loc,        \* per worker: the local variables of its call
    response,   \* per worker: the *ProcessResponse its last call returned, or NULL
    err,        \* per worker: the error its last call returned, "" for nil
    trace,      \* per worker: the calls its current call has made, in order
    prev,       \* per worker: what its previous call was and how it ended
    calls,      \* number of ProcessSongFromURL calls started
    dirs,       \* directories that exist
    files,      \* the file system: path -> content
    generated,  \* identifiers utils.GenerateUniqueID has handed out
    tracks,     \* the store's track table: trackID -> record
    store,      \* the store's fingerprint tuples
    lastPut,    \* store driver: the fingerprint set of the latest put
    prevStore,  \* store driver: the store before the latest put
    repeated    \* store driver: the latest put repeated the put before it

vars == << pc, loc, response, err, trace, prev, calls, dirs, files, generated,
           tracks, store, lastPut, prevStore, repeated >>

driver == << lastPut, prevStore, repeated >>

EmptyLocals ==
    [ input |-> NULL, resp |-> NULL, out |-> "closed", tmpMP3File |-> NULL,
      tmpWavFile |-> NULL, wavInfo |-> NULL, samples |-> << >>,
      spectrogram |-> << >>, peaks |-> {}, songID |-> 0, fingerprints |-> {},
      registeredSongID |-> 0, written |-> {}, logged |-> {}, failed |-> {},
      json |-> << >> ]

Init ==
    /\ pc = [w \in Workers |-> "idle"]
    /\ loc = [w \in Workers |-> EmptyLocals]
    /\ response = [w \in Workers |-> NULL]
    /\ err = [w \in Workers |-> ""]
    /\ trace = [w \in Workers |-> << >>]
    /\ prev = [w \in Workers |-> NULL]
    /\ calls = 0
    /\ dirs = {}
    /\ files = [p \in {} |-> NULL]
    /\ generated = {}
    /\ tracks = [i \in {} |-> NULL]
    /\ store = EmptyBag
    /\ lastPut = << >>
    /\ prevStore = EmptyBag
    /\ repeated = FALSE

\* ------------------------------------------------------------ helpers
Exists(p) == p \in DOMAIN files

WriteFile(fs, p, c) == [q \in DOMAIN fs \cup {p} |-> IF q = p THEN c ELSE fs[q]]

RemoveFile(fs, p) == [q \in DOMAIN fs \ {p} |-> fs[q]]

\* loc with worker w's fields changed as in the record upd
Set(w, upd) ==
    [loc EXCEPT ![w] = [f \in DOMAIN @ |-> IF f \in DOMAIN upd THEN upd[f] ELSE @[f]]]

Called(w, name) == trace' = [trace EXCEPT ![w] = Append(@, name)]

\* At a return the handles are closed and the working data of the call is gone.
Gone ==
    [ resp |-> NULL, out |-> "closed", wavInfo |-> NULL, samples |-> << >>,
      spectrogram |-> << >> ]

\* logger.ErrorContext(ctx, msg, ...); "" stands for no message
Logged(msg) == IF msg = "" THEN {} ELSE {msg}

\* A return before line 90: the deferred out.Close and resp.Body.Close run,
\* nothing is removed.
ReturnEarly(w, step, e, msg) ==
    /\ pc' = [pc EXCEPT ![w] = "done"]
    /\ err' = [err EXCEPT ![w] = e]
    /\ response' = [response EXCEPT ![w] = NULL]
    /\ loc' = Set(w, Gone @@ [logged |-> loc[w].logged \cup Logged(msg),
                               failed |-> loc[w].failed \cup {step}])
    /\ Called(w, step)

\* A return after line 90: the deferred os.Remove(tmpMP3File) runs as well; a
\* handle another call still holds on that file now refers to an unlinked file.
Unlinked(l, w) ==
    [v \in Workers |->
        IF v = w THEN l[v]
        ELSE IF /\ l[v].out = "linked"
                /\ l[v].tmpMP3File = l[w].tmpMP3File
             THEN [l[v] EXCEPT !.out = "unlinked"]
             ELSE l[v]]

ReturnLate(w, step, bad, e, r, msg, upd, fs) ==
    /\ pc' = [pc EXCEPT ![w] = "done"]
    /\ err' = [err EXCEPT ![w] = e]
    /\ response' = [response EXCEPT ![w] = r]
    /\ loc' = Unlinked(Set(w, upd @@ Gone @@
                              [logged |-> loc[w].logged \cup Logged(msg),
                               failed |-> loc[w].failed \cup
                                            (IF bad THEN {step} ELSE {})]), w)
    /\ files' = RemoveFile(fs, loc[w].tmpMP3File)
    /\ Called(w, step)

\* Identifiers are opaque and interchangeable: of those seen nowhere yet only
\* the least is tried, next to every identifier already seen.
Seen == generated \cup DOMAIN tracks

Choices(taken) ==
    LET fresh == IDs \ Seen
    IN  (Seen \ taken) \cup { i \in fresh : \A j \in fresh : i <= j }

\* One step at statement here that goes on to statement next.
Goto(w, here, next) ==
    /\ pc[w] = here
    /\ pc' = [pc EXCEPT ![w] = next]

\* ------------------------------------------- ProcessSongFromURL, by statement
\* The call: a worker that is not inside a call starts one with some input.
Start(w, in) ==
    /\ pc[w] \in {"idle", "done"}
    /\ calls < MaxCalls
    /\ calls' = calls + 1
    /\ pc' = [pc EXCEPT ![w] = "CreateTmp"]
    /\ prev' = [prev EXCEPT ![w] =
                  IF err[w] = "error storing fingerprints"
                  THEN [input |-> loc[w].input, written |-> loc[w].written]
                  ELSE NULL]
    /\ loc' = [loc EXCEPT ![w] = [EmptyLocals EXCEPT !.input = in]]
    /\ response' = [response EXCEPT ![w] = NULL]
    /\ err' = [err EXCEPT ![w] = ""]
    /\ trace' = [trace EXCEPT ![w] = << >>]
    /\ UNCHANGED << dirs, files, generated, tracks, store, driver >>

\* lines 154-172: ProcessSongJSON.  The input is kept as its JSON tokens: an
\* object is "{", then keys and values in turn, then "}".
JsonInputs ==
    { << "{", "song_url", "u1", "title", "a", "artist", "b", "youtube_id", "y", "}" >>,
      << "{", "song_url", "u1" >>,
      << "{", "}" >>,
      << "{", "song_url", "u1", "artist", "b", "}" >>,
      << "{", "song_url", "u1", "title", "a", "artist", "", "}" >>,
      << "{", "title", "a", "}" >>,
      << "{", "song_url", "u1", "}" >> }

WellFormed(js) ==
    /\ Len(js) >= 2
    /\ js[1] = "{" /\ js[Len(js)] = "}"
    /\ Len(js) % 2 = 0

\* the value of key k: the last one given, the zero value "" when there is none
Field(js, k) ==
    LET at == { i \in 1 .. ((Len(js) - 2) \div 2) : js[2 * i] = k }
    IN  IF at = {} THEN ""
        ELSE js[2 * (CHOOSE i \in at : \A j \in at : j <= i) + 1]

\* json.Unmarshal(jsonInput, &input)
Unmarshal(js) ==
    [ song_url |-> Field(js, "song_url"), title |-> Field(js, "title"),
      artist |-> Field(js, "artist"), youtube_id |-> Field(js, "youtube_id") ]

\* lines 156-169: the error ProcessSongJSON returns before it acts, "" for none
ValidationError(js) ==
    IF ~WellFormed(js) THEN "failed to parse JSON input"
    ELSE IF Unmarshal(js).song_url = "" THEN "song_url is required"
    ELSE IF Unmarshal(js).title = "" THEN "title is required"
    ELSE IF Unmarshal(js).artist = "" THEN "artist is required"
    ELSE ""

Rejected(w, js, e) ==
    /\ pc[w] \in {"idle", "done"}
    /\ calls < MaxCalls
    /\ calls' = calls + 1
    /\ pc' = [pc EXCEPT ![w] = "done"]
    /\ prev' = [prev EXCEPT ![w] = NULL]
    /\ loc' = [loc EXCEPT ![w] =
                 [EmptyLocals EXCEPT !.json = js, !.failed = {"ProcessSongJSON"}]]
    /\ response' = [response EXCEPT ![w] = NULL]
    /\ err' = [err EXCEPT ![w] = e]
    /\ trace' = [trace EXCEPT ![w] = << >>]
    /\ UNCHANGED << dirs, files, generated, tracks, store, driver >>

\* the artist is not checked
ProcessSongJSONNoArtist(w, js) ==
    IF ~WellFormed(js) THEN Rejected(w, js, "failed to parse JSON input")
    ELSE IF Unmarshal(js).song_url = "" THEN Rejected(w, js, "song_url is required")
    ELSE IF Unmarshal(js).title = "" THEN Rejected(w, js, "title is required")
    ELSE Start(w, Unmarshal(js))

ProcessSongJSON(w, js) ==
    IF ValidationError(js) # ""
    THEN Rejected(w, js, ValidationError(js))
    ELSE Start(w, Unmarshal(js))

\* line 50: utils.CreateFolder("tmp")
CreateTmpOk(w) ==
    /\ Goto(w, "CreateTmp", "CreateSongs")
    /\ dirs' = dirs \cup {"tmp"}
    /\ Called(w, "CreateFolder")
    /\ UNCHANGED << loc, response, err, prev, calls, files, generated, tracks,
                    store, driver >>

CreateTmpErr(w) ==
    /\ pc[w] = "CreateTmp"
    /\ ReturnEarly(w, "CreateFolder", "failed to create tmp directory", "")
    /\ UNCHANGED << prev, calls, dirs, files, generated, tracks, store, driver >>

\* line 55: utils.CreateFolder("songs")
CreateSongsOk(w) ==
    /\ Goto(w, "CreateSongs", "HttpGet")
    /\ dirs' = dirs \cup {"songs"}
    /\ Called(w, "CreateFolder")
    /\ UNCHANGED << loc, response, err, prev, calls, files, generated, tracks,
                    store, driver >>

CreateSongsErr(w) ==
    /\ pc[w] = "CreateSongs"
    /\ ReturnEarly(w, "CreateFolder", "failed to create songs directory", "")
    /\ UNCHANGED << prev, calls, dirs, files, generated, tracks, store, driver >>

\* lines 61-69: http.Get(input.SongURL) and the status check
HttpGetOk(w) ==
    /\ Goto(w, "HttpGet", "OsCreate")
    /\ loc' = Set(w, [resp |-> [StatusCode |-> StatusOK,
                                Body |-> Body(loc[w].input.song_url)]])
    /\ Called(w, "http.Get")
    /\ UNCHANGED << response, err, prev, calls, dirs, files, generated, tracks,
                    store, driver >>

HttpGetErr(w) ==
    /\ pc[w] = "HttpGet"
    /\ ReturnEarly(w, "http.Get", "failed to download song", "")
    /\ UNCHANGED << prev, calls, dirs, files, generated, tracks, store, driver >>

HttpGetNon200(w) ==
    /\ pc[w] = "HttpGet"
    /\ \E status \in {404, 500} :
         /\ status # StatusOK
         /\ ReturnEarly(w, "http.Get", "received non-200 status code", "")
    /\ UNCHANGED << prev, calls, dirs, files, generated, tracks, store, driver >>

\* lines 72-76: os.Create(tmpMP3File) creates the file or truncates the one there
OsCreateOk(w) ==
    /\ Goto(w, "OsCreate", "IoCopy")
    /\ LET path == TmpMP3Path(loc[w].input) IN
         /\ loc' = Set(w, [tmpMP3File |-> path, out |-> "linked"])
         /\ files' = WriteFile(files, path, [fmt |-> "empty", pcm |-> << >>])
    /\ Called(w, "os.Create")
    /\ UNCHANGED << response, err, prev, calls, dirs, generated, tracks, store,
                    driver >>

OsCreateErr(w) ==
    /\ pc[w] = "OsCreate"
    /\ ReturnEarly(w, "os.Create", "failed to create temporary file", "")
    /\ UNCHANGED << prev, calls, dirs, files, generated, tracks, store, driver >>

\* line 79: io.Copy(out, resp.Body) writes to the file the handle refers to
IoCopyOk(w) ==
    /\ Goto(w, "IoCopy", "ConvertToWav")
    /\ files' = IF loc[w].out = "linked"
                THEN WriteFile(files, loc[w].tmpMP3File,
                               [fmt |-> "mp3", pcm |-> loc[w].resp.Body])
                ELSE files
    /\ Called(w, "io.Copy")
    /\ UNCHANGED << loc, response, err, prev, calls, dirs, generated, tracks,
                    store, driver >>

IoCopyErr(w) ==
    /\ pc[w] = "IoCopy"
    /\ ReturnEarly(w, "io.Copy", "failed to save downloaded file", "")
    /\ files' = IF loc[w].out = "linked"
                THEN WriteFile(files, loc[w].tmpMP3File,
                               [fmt |-> "partial", pcm |-> << >>])
                ELSE files
    /\ UNCHANGED << prev, calls, dirs, generated, tracks, store, driver >>

\* lines 36-43, 85-89: convertToWav runs ffmpeg on the file now at tmpMP3File
ConvertToWavOk(w) ==
    /\ Goto(w, "ConvertToWav", "ReadWavInfo")
    /\ Exists(loc[w].tmpMP3File)
    /\ files[loc[w].tmpMP3File].fmt = "mp3"
    /\ LET outputPath == WavPathOf(loc[w].tmpMP3File) IN
         /\ files' = WriteFile(files, outputPath,
                               [fmt |-> "wav", pcm |-> files[loc[w].tmpMP3File].pcm])
         /\ loc' = Set(w, [tmpWavFile |-> outputPath])
    /\ Called(w, "convertToWav")
    /\ UNCHANGED << response, err, prev, calls, dirs, generated, tracks, store,
                    driver >>

ConvertToWavErr(w) ==
    /\ pc[w] = "ConvertToWav"
    /\ ReturnEarly(w, "convertToWav", "error converting to WAV", "Error converting to WAV")
    /\ UNCHANGED << prev, calls, dirs, files, generated, tracks, store, driver >>

\* lines 93-97: wav.ReadWavInfo(tmpWavFile) reads the file now at that path
ReadWavInfoOk(w) ==
    /\ Goto(w, "ReadWavInfo", "WavBytesToSamples")
    /\ Exists(loc[w].tmpWavFile)
    /\ files[loc[w].tmpWavFile].fmt = "wav"
    /\ LET data == files[loc[w].tmpWavFile].pcm IN
         loc' = Set(w, [wavInfo |-> [Data |-> data, SampleRate |-> SampleRate,
                                     Duration |-> Len(data) \div BytesPerSample]])
    /\ Called(w, "ReadWavInfo")
    /\ UNCHANGED << response, err, prev, calls, dirs, files, generated, tracks,
                    store, driver >>

ReadWavInfoErr(w) ==
    /\ pc[w] = "ReadWavInfo"
    /\ ReturnLate(w, "ReadWavInfo", TRUE, "error reading wave info", NULL, "Error reading wave info",
                  << >>, files)
    /\ UNCHANGED << prev, calls, dirs, generated, tracks, store, driver >>

\* lines 99-103: wav.WavBytesToSamples(wavInfo.Data)
WavBytesToSamplesOk(w) ==
    /\ Goto(w, "WavBytesToSamples", "Spectrogram")
    /\ loc' = Set(w, [samples |-> WavBytesToSamples(loc[w].wavInfo.Data)])
    /\ Called(w, "WavBytesToSamples")
    /\ UNCHANGED << response, err, prev, calls, dirs, files, generated, tracks,
                    store, driver >>

WavBytesToSamplesErr(w) ==
    /\ pc[w] = "WavBytesToSamples"
    /\ ReturnLate(w, "WavBytesToSamples", TRUE, "error converting to samples", NULL,
                  "Error converting to samples", << >>, files)
    /\ UNCHANGED << prev, calls, dirs, generated, tracks, store, driver >>

\* lines 106-110: shazam.Spectrogram(samples, wavInfo.SampleRate)
SpectrogramOk(w) ==
    /\ Goto(w, "Spectrogram", "ExtractPeaks")
    /\ ~SpectrogramFails(loc[w].samples, loc[w].wavInfo.SampleRate)
    /\ loc' = Set(w, [spectrogram |-> SpectrogramOf(loc[w].samples)])
    /\ Called(w, "Spectrogram")
    /\ UNCHANGED << response, err, prev, calls, dirs, files, generated, tracks,
                    store, driver >>

SpectrogramErr(w) ==
    /\ pc[w] = "Spectrogram"
    /\ SpectrogramFails(loc[w].samples, loc[w].wavInfo.SampleRate)
    /\ ReturnLate(w, "Spectrogram", TRUE, "error generating spectrogram", NULL,
                  "Error generating spectrogram", << >>, files)
    /\ UNCHANGED << prev, calls, dirs, generated, tracks, store, driver >>

\* line 112: peaks := shazam.ExtractPeaks(spectrogram, wavInfo.Duration)
ExtractPeaksStep(w) ==
    /\ Goto(w, "ExtractPeaks", "GenerateUniqueID")
    /\ loc' = Set(w, [peaks |-> ExtractPeaks(loc[w].spectrogram,
                                             loc[w].wavInfo.Duration)])
    /\ Called(w, "ExtractPeaks")
    /\ UNCHANGED << response, err, prev, calls, dirs, files, generated, tracks,
                    store, driver >>

\* line 113: songID := utils.GenerateUniqueID()
GenerateUniqueID(w) ==
    /\ Goto(w, "GenerateUniqueID", "Fingerprint")
    /\ \E id \in Choices(generated) :
         /\ loc' = Set(w, [songID |-> id])
         /\ generated' = generated \cup {id}
    /\ Called(w, "GenerateUniqueID")
    /\ UNCHANGED << response, err, prev, calls, dirs, files, tracks, store,
                    driver >>

\* the fingerprints are generated from an empty peak set instead of peaks
FingerprintNoPeaks(w) ==
    /\ Goto(w, "Fingerprint", "NewDBClient")
    /\ loc' = Set(w, [fingerprints |-> Fingerprint({}, loc[w].songID)])
    /\ Called(w, "Fingerprint")
    /\ UNCHANGED << response, err, prev, calls, dirs, files, generated, tracks,
                    store, driver >>

\* line 114: fingerprints := shazam.Fingerprint(peaks, songID)
FingerprintStep(w) ==
    /\ Goto(w, "Fingerprint", "NewDBClient")
    /\ loc' = Set(w, [fingerprints |-> Fingerprint(loc[w].peaks, loc[w].songID)])
    /\ Called(w, "Fingerprint")
    /\ UNCHANGED << response, err, prev, calls, dirs, files, generated, tracks,
                    store, driver >>

\* lines 117-122: db.NewDBClient()
NewDBClientOk(w) ==
    /\ Goto(w, "NewDBClient", "RegisterSong")
    /\ Called(w, "NewDBClient")
    /\ UNCHANGED << loc, response, err, prev, calls, dirs, files, generated,
                    tracks, store, driver >>

\* db.NewDBClient fails and the call goes on instead of returning
NewDBClientErrNoReturn(w) ==
    /\ Goto(w, "NewDBClient", "RegisterSong")
    /\ loc' = Set(w, [logged |-> loc[w].logged \cup {"Error creating DB client"},
                      failed |-> loc[w].failed \cup {"NewDBClient"}])
    /\ Called(w, "NewDBClient")
    /\ UNCHANGED << response, err, prev, calls, dirs, files, generated, tracks,
                    store, driver >>

NewDBClientErr(w) ==
    /\ pc[w] = "NewDBClient"
    /\ ReturnLate(w, "NewDBClient", TRUE, "error creating DB client", NULL, "Error creating DB client",
                  << >>, files)
    /\ UNCHANGED << prev, calls, dirs, generated, tracks, store, driver >>

\* lines 125-129: dbClient.RegisterSong(input.Title, input.Artist, input.YoutubeID)
\* creates a track record under an identifier the store chooses and returns it.
RegisterSongOk(w) ==
    /\ Goto(w, "RegisterSong", "StoreFingerprints")
    /\ \E id \in Choices(DOMAIN tracks) :
         /\ tracks' = [i \in DOMAIN tracks \cup {id} |->
                         IF i = id
                         THEN [title |-> loc[w].input.title,
                               artist |-> loc[w].input.artist,
                               ytID |-> loc[w].input.youtube_id]
                         ELSE tracks[i]]
         /\ loc' = Set(w, [registeredSongID |-> id])
    /\ Called(w, "RegisterSong")
    /\ UNCHANGED << response, err, prev, calls, dirs, files, generated, store,
                    driver >>

\* RegisterSong fails and the call goes on instead of returning
RegisterSongErrNoReturn(w) ==
    /\ Goto(w, "RegisterSong", "StoreFingerprints")
    /\ loc' = Set(w, [logged |-> loc[w].logged \cup {"Error registering song"},
                      failed |-> loc[w].failed \cup {"RegisterSong"}])
    /\ Called(w, "RegisterSong")
    /\ UNCHANGED << response, err, prev, calls, dirs, files, generated, tracks,
                    store, driver >>

RegisterSongErr(w) ==
    /\ pc[w] = "RegisterSong"
    /\ ReturnLate(w, "RegisterSong", TRUE, "error registering song", NULL, "Error registering song",
                  << >>, files)
    /\ UNCHANGED << prev, calls, dirs, generated, tracks, store, driver >>

\* lines 132-136: dbClient.StoreFingerprints(fingerprints)
StoreFingerprintsOk(w) ==
    /\ Goto(w, "StoreFingerprints", "Rename")
    /\ store' = Put(store, loc[w].fingerprints)
    /\ loc' = Set(w, [written |-> loc[w].fingerprints])
    /\ Called(w, "StoreFingerprints")
    /\ UNCHANGED << response, err, prev, calls, dirs, files, generated, tracks,
                    driver >>

\* the failed put is attempted again instead of being returned
StoreFingerprintsErrRetry(w) ==
    /\ pc[w] = "StoreFingerprints"
    /\ Len(trace[w]) < 20
    /\ \E part \in SUBSET loc[w].fingerprints :
         /\ part # loc[w].fingerprints \/ loc[w].fingerprints = {}
         /\ store' = Put(store, part)
         /\ loc' = Set(w, [written |-> loc[w].written \cup part,
                           logged |-> loc[w].logged \cup {"Error storing fingerprints"},
                           failed |-> loc[w].failed \cup {"StoreFingerprints"}])
    /\ Called(w, "StoreFingerprints")
    /\ UNCHANGED << pc, response, err, prev, calls, dirs, files, generated, tracks,
                    driver >>

\* the failed put is followed by a rollback of the track record
StoreFingerprintsErrRollback(w) ==
    /\ pc[w] = "StoreFingerprints"
    /\ tracks' = [i \in DOMAIN tracks \ {loc[w].registeredSongID} |-> tracks[i]]
    /\ ReturnLate(w, "StoreFingerprints", TRUE, "error storing fingerprints", NULL,
                  "Error storing fingerprints", << >>, files)
    /\ UNCHANGED << prev, calls, dirs, generated, store, driver >>

\* the failed put is logged and the call goes on instead of returning
StoreFingerprintsErrIgnored(w) ==
    /\ Goto(w, "StoreFingerprints", "Rename")
    /\ \E part \in SUBSET loc[w].fingerprints :
         /\ part # loc[w].fingerprints \/ loc[w].fingerprints = {}
         /\ store' = Put(store, part)
         /\ loc' = Set(w, [written |-> part,
                           logged |-> loc[w].logged \cup {"Error storing fingerprints"},
                           failed |-> loc[w].failed \cup {"StoreFingerprints"}])
    /\ Called(w, "StoreFingerprints")
    /\ UNCHANGED << response, err, prev, calls, dirs, files, generated, tracks,
                    driver >>

\* the put fails after it has written some of the fingerprints: nothing is undone
StoreFingerprintsErr(w) ==
    /\ pc[w] = "StoreFingerprints"
    /\ \E part \in SUBSET loc[w].fingerprints :
         /\ part # loc[w].fingerprints \/ loc[w].fingerprints = {}
         /\ store' = Put(store, part)
         /\ ReturnLate(w, "StoreFingerprints", TRUE, "error storing fingerprints", NULL,
                       "Error storing fingerprints", [written |-> part], files)
    /\ UNCHANGED << prev, calls, dirs, generated, tracks, driver >>

\* lines 139-151: os.Rename(tmpWavFile, finalPath); the response is a success
\* whether or not the move worked
\* the response carries the identifier the call generated itself
SuccessSongID(w) ==
    [ Success |-> TRUE, Message |-> "Song processed successfully",
      FilePath |-> FinalPath(loc[w].input),
      FingerprintID |-> FormatUint(loc[w].songID) ]

Success(w) ==
    [ Success |-> TRUE, Message |-> "Song processed successfully",
      FilePath |-> FinalPath(loc[w].input),
      FingerprintID |-> FormatUint(loc[w].registeredSongID) ]

\* the file is copied to the songs directory and stays under tmp
RenameOkCopy(w) ==
    /\ pc[w] = "Rename"
    /\ Exists(loc[w].tmpWavFile)
    /\ ReturnLate(w, "os.Rename", FALSE, "", Success(w), "", << >>,
                  WriteFile(files, FinalPath(loc[w].input), files[loc[w].tmpWavFile]))
    /\ UNCHANGED << prev, calls, dirs, generated, tracks, store, driver >>

RenameOk(w) ==
    /\ pc[w] = "Rename"
    /\ Exists(loc[w].tmpWavFile)
    /\ ReturnLate(w, "os.Rename", FALSE, "", Success(w), "", << >>,
                  WriteFile(RemoveFile(files, loc[w].tmpWavFile),
                            FinalPath(loc[w].input), files[loc[w].tmpWavFile]))
    /\ UNCHANGED << prev, calls, dirs, generated, tracks, store, driver >>

RenameErr(w) ==
    /\ pc[w] = "Rename"
    /\ ReturnLate(w, "os.Rename", TRUE, "", Success(w), "Error moving file to songs directory",
                  << >>, files)
    /\ UNCHANGED << prev, calls, dirs, generated, tracks, store, driver >>

\* ------------------------------------------------------- specification
Step(w) ==
    \/ \E in \in Inputs : Start(w, in)
    \/ \E js \in JsonInputs : ProcessSongJSON(w, js)
    \/ CreateTmpOk(w) \/ CreateTmpErr(w)
    \/ CreateSongsOk(w) \/ CreateSongsErr(w)
    \/ HttpGetOk(w) \/ HttpGetErr(w) \/ HttpGetNon200(w)
    \/ OsCreateOk(w) \/ OsCreateErr(w)
    \/ IoCopyOk(w) \/ IoCopyErr(w)
    \/ ConvertToWavOk(w) \/ ConvertToWavErr(w)
    \/ ReadWavInfoOk(w) \/ ReadWavInfoErr(w)
    \/ WavBytesToSamplesOk(w) \/ WavBytesToSamplesErr(w)
    \/ SpectrogramOk(w) \/ SpectrogramErr(w)
    \/ ExtractPeaksStep(w)
    \/ GenerateUniqueID(w)
    \/ FingerprintStep(w)
    \/ NewDBClientOk(w) \/ NewDBClientErr(w)
    \/ RegisterSongOk(w) \/ RegisterSongErr(w)
    \/ StoreFingerprintsOk(w) \/ StoreFingerprintsErr(w)
    \/ RenameOk(w) \/ RenameErr(w)

Next == \E w \in Workers : Step(w)

Spec == Init /\ [][Next]_vars

\* ------------------------------------------------- the store on its own
\* The fingerprint sets ProcessSongFromURL can hand to put, and their parts.
OwnPeaks(url) ==
    LET samples == WavBytesToSamples(Body(url))
    IN  ExtractPeaks(SpectrogramOf(samples), Len(samples))

PutSets ==
    { fps \in SUBSET (UNION { Fingerprint(OwnPeaks(in.song_url), id) :
                                in \in Inputs, id \in IDs }) :
        Cardinality(fps) <= MaxPut }

\* put(fingerprints), called by any client of the store
StorePut(fps) ==
    /\ store' = Put(store, fps)
    /\ prevStore' = store
    /\ lastPut' = << fps >>
    /\ repeated' = (lastPut = << fps >>)
    /\ UNCHANGED << pc, loc, response, err, trace, prev, calls, dirs, files,
                    generated, tracks >>

StoreNext == \E fps \in PutSets : StorePut(fps)

SpecStore == Init /\ [][StoreNext]_vars

\* ------------------------------------------------------------- claims
Range(s) == { s[i] : i \in DOMAIN s }

Index(s, x) == IF x \in Range(s) THEN CHOOSE i \in DOMAIN s : s[i] = x ELSE 0

Before(s, x, y) == Index(s, x) # 0 /\ Index(s, y) # 0 /\ Index(s, x) < Index(s, y)

\* C1: in every call RegisterSong is invoked before StoreFingerprints, and
\* StoreFingerprints is invoked only after RegisterSong returned success in that
\* call: whenever a call is about to put, is putting or has put fingerprints,
\* the track record it registered exists.
InvC1 ==
    \A w \in Workers :
        (pc[w] \in {"StoreFingerprints", "Rename"} \/ "StoreFingerprints" \in Range(trace[w]))
            => /\ "RegisterSong" \in Range(trace[w])
               /\ "StoreFingerprints" \in Range(trace[w])
                    => Before(trace[w], "RegisterSong", "StoreFingerprints")
               /\ "RegisterSong" \notin loc[w].failed
               /\ loc[w].registeredSongID \in DOMAIN tracks

WitC1 ==
    \E w \in Workers :
        /\ "StoreFingerprints" \in Range(trace[w])
        /\ loc[w].written # {}
        /\ loc[w].registeredSongID \in DOMAIN tracks

\* C2: every fingerprint a call has put carries the trackID of the track record
\* that call registered, and every trackID in the fingerprint mapping is a key of
\* the track table.
CexC2 ==
    /\ \A w \in Workers : \A f \in loc[w].written :
           f.trackID = loc[w].registeredSongID
    /\ \A t \in BagToSet(store) : t.trackID \in DOMAIN tracks

\* C3: when a call failed in StoreFingerprints after partial writes and the same
\* call, retried, succeeds, the store is as after one successful ingestion: one
\* track record and exactly one copy of each fingerprint of the track, nothing else.
RetriedToSuccess(w) ==
    /\ calls = 2
    /\ \A v \in Workers \ {w} : pc[v] = "idle"
    /\ pc[w] = "done" /\ err[w] = ""
    /\ prev[w] # NULL
    /\ prev[w].input = loc[w].input
    /\ prev[w].written # {}

CexC3 ==
    \A w \in Workers :
        RetriedToSuccess(w)
            => /\ Cardinality(DOMAIN tracks) = 1
               /\ store = SetToBag(loc[w].fingerprints)

\* C4: a put of the same fingerprint set as the put before it leaves the result
\* of lookup unchanged for every hash.
InvC4 ==
    repeated =>
        \A h \in Hashes(store) \cup Hashes(prevStore) :
            Lookup(store, h) = Lookup(prevStore, h)

WitC4 == repeated /\ lastPut # << {} >> /\ store # EmptyBag

\* C5: within one call Spectrogram, ExtractPeaks, Fingerprint and
\* StoreFingerprints happen in this order, each at most once and each on the
\* result of the step before it, whatever the other workers do.
Pipeline == << "Spectrogram", "ExtractPeaks", "Fingerprint", "StoreFingerprints" >>

PipelineOf(s) == SelectSeq(s, LAMBDA x : x \in Range(Pipeline))

InvC5 ==
    \A w \in Workers :
        /\ LET done == PipelineOf(trace[w])
           IN  /\ Len(done) <= Len(Pipeline)
               /\ done = SubSeq(Pipeline, 1, Len(done))
        /\ pc[w] = "ExtractPeaks"
             => loc[w].spectrogram = SpectrogramOf(loc[w].samples)
        /\ pc[w] = "GenerateUniqueID"
             => loc[w].peaks = ExtractPeaks(SpectrogramOf(loc[w].samples),
                                            loc[w].wavInfo.Duration)
        /\ "Fingerprint" \in Range(trace[w])
             => loc[w].fingerprints = Fingerprint(loc[w].peaks, loc[w].songID)
        /\ loc[w].written \subseteq Fingerprint(loc[w].peaks, loc[w].songID)
        /\ pc[w] = "Rename" => loc[w].written = loc[w].fingerprints

WitC5 ==
    \E w, v \in Workers :
        /\ w # v
        /\ pc[w] = "Rename" /\ loc[w].written # {}
        /\ pc[v] \in {"ExtractPeaks", "GenerateUniqueID", "Fingerprint"}

\* C6: a call whose StoreFingerprints failed has returned an error and no
\* response, and nothing was rolled back: the track record it registered and the
\* fingerprints the failed put wrote are in the store.
InvC6 ==
    \A w \in Workers :
        (pc[w] = "done" /\ "StoreFingerprints" \in loc[w].failed)
            => /\ err[w] # "" /\ response[w] = NULL
               /\ loc[w].registeredSongID \in DOMAIN tracks
               /\ \A f \in loc[w].written : BagIn(f, store)

WitC6 ==
    \E w \in Workers :
        /\ pc[w] = "done" /\ "StoreFingerprints" \in loc[w].failed
        /\ loc[w].written # {}

\* C7 as stated: a call in which any step failed, the final move included,
\* returns an error.
CexC7 ==
    \A w \in Workers :
        (pc[w] = "done" /\ loc[w].failed # {}) => err[w] # ""

\* C7 amended: a call in which a step other than the final move failed returns an
\* error and no response; a failed move is logged and the call still returns
\* success; a success is returned only when no step but the move failed.
InvC7 ==
    \A w \in Workers :
        pc[w] = "done" =>
            /\ (loc[w].failed \ {"os.Rename"} # {})
                 => (err[w] # "" /\ response[w] = NULL)
            /\ "os.Rename" \in loc[w].failed
                 => /\ err[w] = "" /\ response[w] # NULL /\ response[w].Success
                    /\ "Error moving file to songs directory" \in loc[w].logged
            /\ (err[w] = "" /\ response[w] # NULL)
                 => loc[w].failed \subseteq {"os.Rename"}
            /\ (err[w] = "") <=> (response[w] # NULL)

WitC7 ==
    \E w \in Workers :
        /\ pc[w] = "done" /\ "os.Rename" \in loc[w].failed
        /\ response[w] # NULL

\* C8: every call reads, fingerprints and stores the audio it downloaded itself,
\* under every interleaving with the other calls.
OwnFingerprints(w) == Fingerprint(OwnPeaks(loc[w].input.song_url), loc[w].songID)

CexC8 ==
    \A w \in Workers :
        /\ loc[w].wavInfo # NULL
             => loc[w].wavInfo.Data = Body(loc[w].input.song_url)
        /\ "Fingerprint" \in Range(trace[w])
             => loc[w].fingerprints = OwnFingerprints(w)

\* C9: when no call is running, no file is left under tmp.
CexC9 ==
    (\A w \in Workers : pc[w] \in {"idle", "done"})
        => \A p \in DOMAIN files : p.dir # "tmp"

\* C10: a call whose extracted peak set is empty ends with an error and invokes
\* neither RegisterSong nor StoreFingerprints.
CexC10 ==
    \A w \in Workers :
        ("ExtractPeaks" \in Range(trace[w]) /\ loc[w].peaks = {})
            => /\ "RegisterSong" \notin Range(trace[w])
               /\ "StoreFingerprints" \notin Range(trace[w])
               /\ pc[w] = "done" => err[w] # ""

\* C11: within one call RegisterSong and StoreFingerprints are each invoked at
\* most once, and a call in which one of them failed has made no further call:
\* it has returned that error.
Count(s, x) == Cardinality({ i \in DOMAIN s : s[i] = x })

InvC11 ==
    \A w \in Workers :
        /\ Count(trace[w], "RegisterSong") <= 1
        /\ Count(trace[w], "StoreFingerprints") <= 1
        /\ \A step \in {"RegisterSong", "StoreFingerprints"} :
             step \in loc[w].failed
               => /\ pc[w] = "done" /\ err[w] # "" /\ response[w] = NULL
                  /\ trace[w][Len(trace[w])] = step

WitC11 ==
    \E w \in Workers :
        /\ pc[w] = "done"
        /\ "StoreFingerprints" \in loc[w].failed
        /\ Count(trace[w], "RegisterSong") = 1
        /\ Count(trace[w], "StoreFingerprints") = 1

\* C12: a call in which a step before the registration failed returns an error
\* and no response with that step, has invoked neither RegisterSong nor
\* StoreFingerprints, and leaves the track table and the fingerprints as they were.
PreRegistration ==
    { "CreateFolder", "http.Get", "os.Create", "io.Copy", "convertToWav",
      "ReadWavInfo", "WavBytesToSamples", "Spectrogram", "NewDBClient" }

FailedEarly(w) == loc[w].failed \cap PreRegistration # {}

ActC12 ==
    [][ \A w \in Workers :
          /\ FailedEarly(w)' =>
               /\ pc'[w] = "done" /\ err'[w] # "" /\ response'[w] = NULL
               /\ "RegisterSong" \notin Range(trace'[w])
               /\ "StoreFingerprints" \notin Range(trace'[w])
               /\ loc'[w].registeredSongID = 0 /\ loc'[w].written = {}
          /\ (~FailedEarly(w) /\ FailedEarly(w)') =>
               (tracks' = tracks /\ store' = store) ]_vars

WitC12 ==
    \E w \in Workers :
        /\ pc[w] = "done"
        /\ "NewDBClient" \in loc[w].failed
        /\ store # EmptyBag

\* C13: ProcessSongJSON returns an error without starting ProcessSongFromURL when
\* its input does not parse or song_url, title or artist is empty; the error is
\* that of the first empty field in the order song_url, title, artist; nothing
\* is created.  No call that runs has an empty song_url, title or artist.
Required == << "song_url", "title", "artist" >>

Messages == << "song_url is required", "title is required", "artist is required" >>

ExpectedError(js) ==
    IF ~WellFormed(js) THEN "failed to parse JSON input"
    ELSE LET empty == { i \in 1 .. Len(Required) : Field(js, Required[i]) = "" }
         IN  IF empty = {} THEN ""
             ELSE Messages[CHOOSE i \in empty : \A j \in empty : i <= j]

IsRejected(w) == "ProcessSongJSON" \in loc[w].failed

ActC13 ==
    [][ \A w \in Workers :
          /\ IsRejected(w)' =>
               /\ pc'[w] = "done" /\ response'[w] = NULL
               /\ err'[w] # "" /\ err'[w] = ExpectedError(loc'[w].json)
               /\ trace'[w] = << >> /\ loc'[w].input = NULL
          /\ (pc'[w] # pc[w] /\ IsRejected(w)') =>
               UNCHANGED << dirs, files, generated, tracks, store >>
          /\ loc'[w].input # NULL =>
               /\ loc'[w].input.song_url # ""
               /\ loc'[w].input.title # ""
               /\ loc'[w].input.artist # "" ]_vars

WitC13 ==
    \E w \in Workers :
        /\ IsRejected(w)
        /\ err[w] = "title is required"
        /\ Field(loc[w].json, "artist") = ""
        /\ dirs = {}

\* C14: a success response implies that in this call RegisterSong and
\* StoreFingerprints were invoked and neither failed, and its FingerprintID is
\* the decimal rendering of the identifier RegisterSong returned in this call,
\* under which a track record exists, not that of the generated songID.
InvC14 ==
    \A w \in Workers :
        response[w] # NULL =>
            /\ response[w].Success /\ err[w] = "" /\ pc[w] = "done"
            /\ Before(trace[w], "RegisterSong", "StoreFingerprints")
            /\ loc[w].failed \cap {"RegisterSong", "StoreFingerprints"} = {}
            /\ loc[w].written = loc[w].fingerprints
            /\ loc[w].registeredSongID \in DOMAIN tracks
            /\ response[w].FingerprintID = FormatUint(loc[w].registeredSongID)
            /\ loc[w].songID # loc[w].registeredSongID
                 => response[w].FingerprintID # FormatUint(loc[w].songID)

WitC14 ==
    \E w \in Workers :
        /\ response[w] # NULL
        /\ loc[w].songID # loc[w].registeredSongID
        /\ loc[w].written # {}

\* C15 as stated: when a call returns a success response, its FilePath names a
\* file in the songs directory that holds the WAV that was at tmpWavFile, and
\* that file is no longer under tmp.
Returns(w) == response[w] = NULL /\ response'[w] # NULL

Moved(w) ==
    LET path == response'[w].FilePath
        wav  == loc[w].tmpWavFile
    IN  /\ path.dir = "songs"
        /\ path \in DOMAIN files'
        /\ wav \notin DOMAIN files'
        /\ wav \in DOMAIN files
        /\ files'[path] = files[wav]
        /\ files'[path].fmt = "wav"

CexC15 == [][ \A w \in Workers : Returns(w) => Moved(w) ]_vars

\* C15 amended: when a call returns a success response, its FilePath is the path
\* in the songs directory made of title and artist; if os.Rename succeeded, that
\* path holds the file that was at tmpWavFile and tmpWavFile is gone; if
\* os.Rename failed, no file was moved: both paths are as they were.
ActC15 ==
    [][ \A w \in Workers :
          Returns(w) =>
            /\ response'[w].FilePath = FinalPath(loc[w].input)
            /\ response'[w].FilePath.dir = "songs"
            /\ IF "os.Rename" \notin loc'[w].failed
               THEN Moved(w)
               ELSE \A p \in {response'[w].FilePath, loc[w].tmpWavFile} :
                      /\ (p \in DOMAIN files') <=> (p \in DOMAIN files)
                      /\ p \in DOMAIN files => files'[p] = files[p] ]_vars

WitC15 ==
    \E w \in Workers :
        /\ response[w] # NULL
        /\ "os.Rename" \notin loc[w].failed
        /\ response[w].FilePath \in DOMAIN files
        /\ files[response[w].FilePath] =
             [fmt |-> "wav", pcm |-> Body(loc[w].input.song_url)]
        /\ loc[w].tmpWavFile \notin DOMAIN files

====
